---- MODULE Spec2Model ----
(***************************************************************************)
(* Model of the SignalGenerator report client: callN8N (ticker             *)
(* normalisation, primary/fallback fetch loop, response normalisation and  *)
(* per-record validation) and the SignalUI component state driven by run.  *)
(*                                                                         *)
(* Strings are sequences of one-character strings; messages are sequences  *)
(* of tokens, so '' is <<>> and template literals are concatenations.      *)
(***************************************************************************)
EXTENDS Integers, Sequences, FiniteSets, TLC

VARIABLES input, format, timeH, riskT, exchange, loading, error, valErr,
          toast, data, expanded, calls, edits, ev, probe

vars == <<input, format, timeH, riskT, exchange, loading, error, valErr,
          toast, data, expanded, calls, edits, ev, probe>>

ui == <<input, format, timeH, riskT, exchange, loading, error, valErr,
        toast, data, expanded>>

(***************************************************************************)
(* Bounds of the model.                                                    *)
(***************************************************************************)
MaxInFlight == 2
MaxEdits == 1
MaxLen == 3
MaxRecs == 2

(***************************************************************************)
(* JavaScript values that are not strings, arrays or objects.              *)
(***************************************************************************)
Null == [k |-> "null"]
Undefined == [k |-> "undefined"]

\* A string held where null is possible (string | null), and an Error object.
Str(s) == [k |-> "str", s |-> s]
Error(message) == [k |-> "Error", message |-> message]

(***************************************************************************)
(* String primitives: trim, toUpperCase, includes, split(','), join(',').  *)
(***************************************************************************)
IsSpace(c) == c = " "

toUpperCase1(c) ==
  CASE c = "a" -> "A"
    [] c = "b" -> "B"
    [] c = "e" -> "E"
    [] c = "o" -> "O"
    [] c = "r" -> "R"
    [] OTHER -> c

toLowerCase1(c) ==
  CASE c = "A" -> "a"
    [] c = "B" -> "b"
    [] c = "E" -> "e"
    [] c = "O" -> "o"
    [] c = "R" -> "r"
    [] OTHER -> c

toUpperCase(s) == [k \in 1..Len(s) |-> toUpperCase1(s[k])]

toLowerCase(s) == [k \in 1..Len(s) |-> toLowerCase1(s[k])]

RECURSIVE trimStart(_)
trimStart(s) ==
  IF s # <<>> /\ IsSpace(Head(s)) THEN trimStart(Tail(s)) ELSE s

RECURSIVE trimEnd(_)
trimEnd(s) ==
  IF s # <<>> /\ IsSpace(s[Len(s)]) THEN trimEnd(SubSeq(s, 1, Len(s) - 1)) ELSE s

trim(s) == trimEnd(trimStart(s))

includes(s, sub) ==
  \E k \in 0..(Len(s) - Len(sub)) : SubSeq(s, k + 1, k + Len(sub)) = sub

\* s.split(','): always at least one segment; "" splits into [""].
RECURSIVE split(_)
split(s) ==
  IF \A k \in 1..Len(s) : s[k] # ","
  THEN <<s>>
  ELSE LET p == CHOOSE k \in 1..Len(s) :
                  s[k] = "," /\ \A m \in 1..(k - 1) : s[m] # ","
       IN <<SubSeq(s, 1, p - 1)>> \o split(SubSeq(s, p + 1, Len(s)))

RECURSIVE join(_)
join(segs) ==
  IF Len(segs) = 0 THEN <<>>
  ELSE IF Len(segs) = 1 THEN segs[1]
  ELSE segs[1] \o <<",">> \o join(Tail(segs))

(***************************************************************************)
(* callN8N, lines 100-107: the ticker list sent to the service.            *)
(***************************************************************************)
\* Mutant: the suffix is appended without looking for a "." first.
suffixTickerAlways(t, exch) == toUpperCase(trim(t)) \o <<".">> \o exch

suffixTicker(t, exch) ==
  LET trimmed == toUpperCase(trim(t))
  IN IF includes(trimmed, <<".">>) THEN trimmed ELSE trimmed \o <<".">> \o exch

normalizeTickers(tickersIn, exch) ==
  LET segs == split(tickersIn)
  IN join([k \in 1..Len(segs) |-> suffixTicker(segs[k], exch)])

(***************************************************************************)
(* Report records: JavaScript objects are functions over the names of the  *)
(* fields that are present; a field that is absent is not in the DOMAIN.   *)
(***************************************************************************)
Has(o, f) == f \in DOMAIN o

\* Truthiness of a string-valued field: absent and '' are falsy.
truthyText(o, f) == Has(o, f) /\ o[f] # <<>>

\* !r.current_price || r.current_price === 0
noPrice(r) == ~Has(r, "current_price") \/ r["current_price"] = 0

\* { ...r, isInvalid: true, invalidReason: reason }
markInvalid(r, reason) ==
  [f \in DOMAIN r \cup {"isInvalid", "invalidReason"} |->
     IF f = "isInvalid" THEN TRUE
     ELSE IF f = "invalidReason" THEN reason
     ELSE r[f]]

NoPriceReason == <<"Invalid or delisted symbol - no price data available">>
LookupFailedReason == <<"Symbol lookup failed">>

(***************************************************************************)
(* callN8N, lines 184-198 of src/SignalGenerator.tsx: the callback of      *)
(* result.results.map.                                                     *)
(***************************************************************************)
\* Mutant: only a missing price is looked for, not a price of zero.
validateResultMissingPrice(r) ==
  IF truthyText(r, "error")
  THEN markInvalid(r, IF truthyText(r, "details") THEN r["details"] ELSE r["error"])
  ELSE IF ~Has(r, "current_price")
  THEN markInvalid(r, NoPriceReason)
  ELSE r

\* Mutant: the reason is r.error || r.details.
validateResultErrorFirst(r) ==
  IF truthyText(r, "error")
  THEN markInvalid(r, r["error"])
  ELSE IF noPrice(r)
  THEN markInvalid(r, NoPriceReason)
  ELSE r

\* Mutant: the price is looked at before the error.
validateResultPriceFirst(r) ==
  IF noPrice(r)
  THEN markInvalid(r, NoPriceReason)
  ELSE IF truthyText(r, "error")
  THEN markInvalid(r, IF truthyText(r, "details") THEN r["details"] ELSE r["error"])
  ELSE r

validateResult(r) ==
  IF truthyText(r, "error")
  THEN markInvalid(r, IF truthyText(r, "details") THEN r["details"] ELSE r["error"])
  ELSE IF noPrice(r)
  THEN markInvalid(r, NoPriceReason)
  ELSE r

(***************************************************************************)
(* The same callback in the revision unnamed/part_001, lines 184-213: one  *)
(* more rule, on symbols that contain "error".                             *)
(***************************************************************************)
\* Mutant: the symbol rule of part_001 is applied before its price rule.
validateResultP1SymbolFirst(r) ==
  IF truthyText(r, "error")
  THEN markInvalid(r, IF truthyText(r, "details") THEN r["details"] ELSE r["error"])
  ELSE IF truthyText(r, "symbol")
          /\ includes(toLowerCase(r["symbol"]), <<"e", "r", "r", "o", "r">>)
  THEN markInvalid(r, LookupFailedReason)
  ELSE IF noPrice(r)
  THEN markInvalid(r, NoPriceReason)
  ELSE r

validateResultP1(r) ==
  IF truthyText(r, "error")
  THEN markInvalid(r, IF truthyText(r, "details") THEN r["details"] ELSE r["error"])
  ELSE IF noPrice(r)
  THEN markInvalid(r, NoPriceReason)
  ELSE IF truthyText(r, "symbol")
          /\ includes(toLowerCase(r["symbol"]), <<"e", "r", "r", "o", "r">>)
  THEN markInvalid(r, LookupFailedReason)
  ELSE r

\* Mutant: the records are returned as the service sent them.
validateResultsNone(rs) == rs

validateResults(rs) == [k \in 1..Len(rs) |-> validateResult(rs[k])]

(***************************************************************************)
(* callN8N, lines 160-175: the records synthesized for the error array.    *)
(***************************************************************************)
invalidTickerRecord(symbol, errorMsg) ==
  [symbol |-> trim(symbol),
   current_price |-> 0,
   signal |-> "SELL/AVOID",
   confidence |-> "0%",
   entry_price |-> 0,
   target_price |-> 0,
   stop_loss |-> 0,
   isInvalid |-> TRUE,
   invalidReason |-> <<"Invalid ticker: ">> \o errorMsg]

\* Mutant: one record for the whole ticker list.
errorArrayResponseUnsplit(tickers, errorMsg) ==
  [results |-> <<invalidTickerRecord(tickers, errorMsg)>>]

errorArrayResponse(tickers, errorMsg) ==
  LET tickerSymbols == split(tickers)
  IN [results |-> [k \in 1..Len(tickerSymbols) |->
                     invalidTickerRecord(tickerSymbols[k], errorMsg)]]

(***************************************************************************)
(* A parsed JSON body is null, a number, an array of objects or an object. *)
(* The outcome of a piece of code is a returned value or a thrown message. *)
(***************************************************************************)
JNull == [k |-> "null"]
JNum == [k |-> "num", n |-> 5]
JArr(elems) == [k |-> "arr", e |-> elems]
JObj(obj) == [k |-> "obj", o |-> obj]

Ret(v) == [threw |-> FALSE, value |-> v]
Throw(m) == [threw |-> TRUE, msg |-> m]

TypeErrorNull == <<"Cannot read properties of null (reading 'results')">>
TypeErrorUndefined == <<"Cannot read properties of undefined (reading 'results')">>

\* Array.isArray(parsed) && parsed[0]?.error
isErrorArray(parsed) ==
  /\ parsed.k = "arr"
  /\ Len(parsed.e) > 0
  /\ truthyText(parsed.e[1], "error")

\* Mutant: an array is not unwrapped.
extractResultAsIs(parsed) == parsed

\* let result = Array.isArray(parsed) ? parsed[0] : parsed
extractResult(parsed) ==
  IF parsed.k = "arr"
  THEN IF Len(parsed.e) > 0 THEN JObj(parsed.e[1]) ELSE Undefined
  ELSE parsed

\* if (result.results) { result.results = result.results.map(...) }; return result
validateExtracted(result) ==
  IF result.k = "null" THEN Throw(TypeErrorNull)
  ELSE IF result.k = "undefined" THEN Throw(TypeErrorUndefined)
  ELSE IF result.k = "obj" /\ Has(result.o, "results")
  THEN Ret(JObj([f \in DOMAIN result.o |->
                   IF f = "results" THEN validateResults(result.o[f])
                   ELSE result.o[f]]))
  ELSE Ret(result)

(***************************************************************************)
(* callN8N, lines 158-202: from the parsed body to the returned value.     *)
(***************************************************************************)
\* Mutant: results in the first element are used when there are any.
processParsedResultsFirst(tickers, parsed) ==
  IF isErrorArray(parsed) /\ ~Has(parsed.e[1], "results")
  THEN Ret(JObj(errorArrayResponse(tickers, parsed.e[1]["error"])))
  ELSE validateExtracted(extractResult(parsed))

processParsed(tickers, parsed) ==
  IF isErrorArray(parsed)
  THEN Ret(JObj(errorArrayResponse(tickers, parsed.e[1]["error"])))
  ELSE validateExtracted(extractResult(parsed))

(***************************************************************************)
(* callN8N, lines 109-117 and 132: the endpoints and the request body.     *)
(***************************************************************************)
primaryUrl == "https://anandshinde75.app.n8n.cloud/webhook/signalGenerator"
fallbackUrl == "/webhook/signalGenerator"
urls == <<primaryUrl, fallbackUrl>>

\* Mutant: the Output Format sent is the format of the payload.
requestBodyWithFormat(tickers, payload) ==
  [f \in {"Ticker ", "Time Horizon", "Risk Tolerance", "Output Format"} |->
     CASE f = "Ticker " -> tickers
       [] f = "Time Horizon" -> payload.timeHorizon
       [] f = "Risk Tolerance" -> payload.riskTolerance
       [] OTHER -> IF "format" \in DOMAIN payload THEN payload.format ELSE "Detailed"]

requestBodyOf(tickers, payload) ==
  [f \in {"Ticker ", "Time Horizon", "Risk Tolerance", "Output Format"} |->
     CASE f = "Ticker " -> tickers
       [] f = "Time Horizon" -> payload.timeHorizon
       [] f = "Risk Tolerance" -> payload.riskTolerance
       [] OTHER -> "Detailed"]

\* JSON.stringify(requestBody): the key/value pairs in insertion order.
JSONstringify(body) ==
  <<<<"Ticker ", body["Ticker "]>>,
    <<"Time Horizon", body["Time Horizon"]>>,
    <<"Risk Tolerance", body["Risk Tolerance"]>>,
    <<"Output Format", body["Output Format"]>>>>

(***************************************************************************)
(* What one fetch can settle with: a rejection (network error), or a       *)
(* response with a status and a body text that is raw characters or the    *)
(* serialization of a JSON value.                                          *)
(***************************************************************************)
Rejected == [kind |-> "rejected", msg |-> <<"Failed to fetch">>]
Response(ok, status, text) == [kind |-> "response", ok |-> ok, status |-> status, text |-> text]
RawText(s) == [t |-> "raw", s |-> s]
JsonText(v) == [t |-> "json", v |-> v]

EmptyResponseMsg ==
  <<"Empty response from webhook. Make sure your n8n workflow returns data.">>
InvalidJsonMsg ==
  <<"Invalid JSON response from webhook. Check your n8n workflow output.">>

\* `HTTP ${res.status}: ${errorText || 'Failed to fetch data'}`
httpErrorMsg(status, errorText) ==
  <<"HTTP ", status, ": ">> \o
    (IF errorText # <<>> THEN errorText ELSE <<"Failed to fetch data">>)

\* !responseText || responseText.trim() === ''
isEmptyText(text) == text.t = "raw" /\ trim(text.s) = <<>>

(***************************************************************************)
(* callN8N, lines 129-202: the body of the try block once fetch settles.   *)
(***************************************************************************)
\* Mutant: a Response with a record marked invalid is thrown as a failure.
attemptRejectingInvalid(resp, tickers) ==
  IF resp.kind = "rejected" THEN Throw(resp.msg)
  ELSE IF ~resp.ok THEN Throw(httpErrorMsg(resp.status, resp.text.s))
  ELSE IF isEmptyText(resp.text) THEN Throw(EmptyResponseMsg)
  ELSE IF resp.text.t = "raw" THEN Throw(InvalidJsonMsg)
  ELSE LET out == processParsed(tickers, resp.text.v)
       IN IF /\ ~out.threw
             /\ out.value.k = "obj" /\ Has(out.value.o, "results")
             /\ \E k \in 1..Len(out.value.o["results"]) :
                  Has(out.value.o["results"][k], "isInvalid")
          THEN Throw(<<"Invalid ticker">>)
          ELSE out

attempt(resp, tickers) ==
  IF resp.kind = "rejected" THEN Throw(resp.msg)
  ELSE IF ~resp.ok THEN Throw(httpErrorMsg(resp.status, resp.text.s))
  ELSE IF isEmptyText(resp.text) THEN Throw(EmptyResponseMsg)
  ELSE IF resp.text.t = "raw" THEN Throw(InvalidJsonMsg)
  ELSE processParsed(tickers, resp.text.v)

(***************************************************************************)
(* Inputs of the model: what the user can type and select, the records the *)
(* service can report and the ways a fetch can settle.                     *)
(***************************************************************************)
Formats == {"Detailed", "Compact"}
TimeHorizons == {"Short-term", "Medium-term", "Long-term"}
RiskTolerances == {"Conservative", "Moderate", "Aggressive"}

NS == <<"N", "S">>
BO == <<"B", "O">>
Reliance == <<"R", "E", "L", "I", "A", "N", "C", "E">>

\* What the user types in place of the initial input.
TypedInputs == {<<" ">>, <<"a", "a", ",", " ", "b", ".", "B", "O">>}

SymA == <<"A", "A", ".", "N", "S">>
SymB == <<"B", ".", "B", "O">>
SymErr == <<"E", "r", "r", "o", "r", ".", "N", "S">>

\* A service record: each optional field is given as <<>> (absent) or <<v>>.
serviceRecord(symbol, price, err, details) ==
  [f \in {"symbol", "signal", "confidence"}
         \cup (IF price # <<>> THEN {"current_price"} ELSE {})
         \cup (IF err # <<>> THEN {"error"} ELSE {})
         \cup (IF details # <<>> THEN {"details"} ELSE {}) |->
     CASE f = "symbol" -> symbol
       [] f = "signal" -> "BUY"
       [] f = "confidence" -> "80%"
       [] f = "current_price" -> price[1]
       [] f = "error" -> err[1]
       [] f = "details" -> details[1]]

GoodA == serviceRecord(SymA, <<100>>, <<>>, <<>>)
GoodB == serviceRecord(SymB, <<100>>, <<>>, <<>>)
ZeroB == serviceRecord(SymB, <<0>>, <<>>, <<>>)
ErrorB == serviceRecord(SymB, <<100>>, <<<<"not found">>>>, <<<<"symbol delisted">>>>)
BlankErrorA == serviceRecord(SymA, <<100>>, <<<<>>>>, <<>>)

\* The parsed bodies of the responses with a success status.
Bodies ==
  { JObj([results |-> <<GoodA>>]),
    JObj([results |-> <<ErrorB, GoodA>>]),
    JArr(<<[results |-> <<ZeroB, GoodA>>]>>),
    JArr(<<[error |-> <<"bad ticker">>]>>),
    JObj([results |-> <<BlankErrorA>>]),
    JObj([results |-> <<GoodA, GoodA>>]),
    JObj([results |-> <<>>]),
    JObj(GoodA),
    JNull }

Failures ==
  { Rejected,
    Response(FALSE, "500", RawText(<<>>)),
    Response(TRUE, "200", RawText(<<>>)),
    Response(TRUE, "200", RawText(<<"<html>">>)) }

Responses == Failures \cup {Response(TRUE, "200", JsonText(b)) : b \in Bodies}

(***************************************************************************)
(* SignalUI, lines 510-520: the state after construction.  calls holds the *)
(* invocations of callN8N that have not settled, in the order they were    *)
(* started, each with a mark latest that tells whether it is the one       *)
(* started last; ev is the settlement of callN8N made by the last step, if *)
(* any; probe is used by PureSpec only.                                    *)
(***************************************************************************)
NoCalls == <<>>

UiInit ==
  /\ input = Reliance
  /\ format = "Detailed"
  /\ timeH = "Medium-term"
  /\ riskT = "Moderate"
  /\ exchange = NS
  /\ loading = FALSE
  /\ error = <<>>
  /\ valErr = <<>>
  /\ toast = Null
  /\ data = Null
  /\ expanded = Null

Init ==
  /\ UiInit
  /\ calls = NoCalls
  /\ edits = 0
  /\ ev = Null
  /\ probe = Null

(***************************************************************************)
(* The form, lines 783-822: onChange handlers.                             *)
(***************************************************************************)
SetInput ==
  /\ edits < MaxEdits
  /\ \E v \in TypedInputs \cup {Reliance} : v # input /\ input' = v
  /\ edits' = edits + 1
  /\ ev' = Null
  /\ UNCHANGED <<format, timeH, riskT, exchange, loading, error, valErr, toast,
                 data, expanded, calls, probe>>

SetFormat ==
  /\ edits < MaxEdits
  /\ \E v \in Formats : v # format /\ format' = v
  /\ edits' = edits + 1
  /\ ev' = Null
  /\ UNCHANGED <<input, timeH, riskT, exchange, loading, error, valErr, toast,
                 data, expanded, calls, probe>>

SetTimeH ==
  /\ edits < MaxEdits
  /\ \E v \in TimeHorizons : v # timeH /\ timeH' = v
  /\ edits' = edits + 1
  /\ ev' = Null
  /\ UNCHANGED <<input, format, riskT, exchange, loading, error, valErr, toast,
                 data, expanded, calls, probe>>

SetRiskT ==
  /\ edits < MaxEdits
  /\ \E v \in RiskTolerances : v # riskT /\ riskT' = v
  /\ edits' = edits + 1
  /\ ev' = Null
  /\ UNCHANGED <<input, format, timeH, exchange, loading, error, valErr, toast,
                 data, expanded, calls, probe>>

(***************************************************************************)
(* callN8N, lines 98-133: from the call to the first fetch.                *)
(***************************************************************************)
fetchEvent(i, body) == [op |-> "fetch", url |-> urls[i + 1], body |-> JSONstringify(body)]
failedEvent(i, msg) == [op |-> "failed", url |-> urls[i + 1], msg |-> msg]

newCall(payload) ==
  LET tickers == normalizeTickers(payload.tickers, payload.exchange)
      requestBody == requestBodyOf(tickers, payload)
  IN [tickers |-> tickers,
      requestBody |-> requestBody,
      i |-> 0,
      lastError |-> Null,
      log |-> <<fetchEvent(0, requestBody)>>,
      latest |-> TRUE]

\* The pending calls once another invocation has been started after them.
superseded(cs) == [k \in 1..Len(cs) |-> [cs[k] EXCEPT !.latest = FALSE]]

(***************************************************************************)
(* run, lines 532-552: up to the await of callN8N.                         *)
(***************************************************************************)
ValErrMsg == <<"Please enter at least one ticker">>

run ==
  /\ error' = <<>>
  /\ ev' = Null
  /\ IF trim(input) = <<>>
     THEN /\ valErr' = ValErrMsg
          /\ UNCHANGED <<loading, data, expanded, calls>>
     ELSE /\ Len(calls) < MaxInFlight
          /\ valErr' = <<>>
          /\ loading' = TRUE
          /\ data' = Null
          /\ expanded' = Null
          /\ calls' = Append(superseded(calls), newCall([tickers |-> input, format |-> format,
                                              timeHorizon |-> timeH,
                                              riskTolerance |-> riskT,
                                              exchange |-> exchange]))
  /\ UNCHANGED <<input, format, timeH, riskT, exchange, toast, edits, probe>>

\* The submit button, lines 826-828: disabled while loading.
ClickGenerate ==
  /\ ~loading
  /\ run

\* The Retry button of the toast, lines 832-839.
ClickRetry ==
  /\ toast # Null
  /\ run

(***************************************************************************)
(* callN8N, lines 124-214, and run, lines 554-564: one fetch settles.  The *)
(* code from the settled fetch to the next await runs without interleaving *)
(* with other handlers: either the loop continues with the fallback fetch, *)
(* or callN8N settles and run's continuation sets the component state.     *)
(***************************************************************************)
without(cs, id) == SubSeq(cs, 1, id - 1) \o SubSeq(cs, id + 1, Len(cs))

okEvent(i) == [op |-> "ok", url |-> urls[i + 1]]

\* Mutant: the fallback's body is built again from the form as it is now.
fetchBodyFromForm(c) ==
  requestBodyOf(normalizeTickers(input, exchange),
                [timeHorizon |-> timeH, riskTolerance |-> riskT])

\* Line 132: the body of a fetch of call c is its requestBody.
fetchBody(c) == c.requestBody

\* Mutant: the first failure is kept.
caughtFirst(c, msg) == IF c.lastError # Null THEN c.lastError ELSE Error(msg)

\* Line 204: lastError after the catch block caught an Error with message msg.
caught(c, msg) == Error(msg)

\* Mutant: a successful attempt does not leave the loop while urls remain.
loopStepNoReturn(c, out) ==
  IF c.i + 1 < Len(urls)
  THEN [ctl |-> "fetch", i |-> c.i + 1,
        lastError |-> IF out.threw THEN caught(c, out.msg) ELSE c.lastError]
  ELSE IF ~out.threw THEN [ctl |-> "return", value |-> out.value]
  ELSE [ctl |-> "throw", lastError |-> caught(c, out.msg)]

\* Lines 124-214: where the loop goes once attempt i has ended with out.  The
\* "continue" of line 209 and falling out of the catch block both lead to i++
\* and the test i < urls.length.
loopStep(c, out) ==
  IF ~out.threw THEN [ctl |-> "return", value |-> out.value]
  ELSE IF c.i + 1 < Len(urls)
  THEN [ctl |-> "fetch", i |-> c.i + 1, lastError |-> caught(c, out.msg)]
  ELSE [ctl |-> "throw", lastError |-> caught(c, out.msg)]

\* Lines 554-557: the held Response and the expanded symbol after a return.
hasResults(res) == res.k = "obj" /\ Has(res.o, "results")

dataAfter(res) == IF hasResults(res) THEN res.o ELSE data

expandedAfter(res) ==
  IF hasResults(res) /\ Len(res.o["results"]) > 0
  THEN Str(res.o["results"][1]["symbol"])
  ELSE expanded

Settle(id, resp) ==
  LET c == calls[id]
      out == attempt(resp, c.tickers)
      step == loopStep(c, out)
      outcome == IF out.threw THEN failedEvent(c.i, out.msg) ELSE okEvent(c.i)
  IN IF step.ctl = "return"
     THEN \* return result; run: setData, setExpanded, setLoading(false)
          /\ data' = dataAfter(step.value)
          /\ expanded' = expandedAfter(step.value)
          /\ loading' = FALSE
          /\ calls' = without(calls, id)
          /\ ev' = [type |-> "returned", i |-> c.i, resp |-> resp,
                    value |-> step.value]
          /\ UNCHANGED <<error, toast>>
     ELSE IF step.ctl = "fetch"
     THEN \* the next iteration: fetch(urls[i], ...)
          /\ calls' = [calls EXCEPT ![id] =
                         [c EXCEPT !.i = step.i,
                                   !.lastError = step.lastError,
                                   !.log = c.log \o <<outcome,
                                                      fetchEvent(step.i, fetchBody(c))>>]]
          /\ ev' = Null
          /\ UNCHANGED <<data, expanded, loading, error, toast>>
     ELSE \* throw lastError; run: setError, setToast, setLoading(false)
          /\ error' = step.lastError.message
          /\ toast' = Str(step.lastError.message)
          /\ loading' = FALSE
          /\ calls' = without(calls, id)
          /\ ev' = [type |-> "threw", i |-> c.i, resp |-> resp,
                    lastError |-> c.lastError, msg |-> step.lastError.message]
          /\ UNCHANGED <<data, expanded>>

FetchSettles ==
  /\ \E id \in DOMAIN calls : \E resp \in Responses : Settle(id, resp)
  /\ UNCHANGED <<input, format, timeH, riskT, exchange, valErr, edits, probe>>

(***************************************************************************)
(* Lines 524-529: the toast is dismissed by its timer.                     *)
(***************************************************************************)
\* Mutant: the timer clears the error message too.
ToastTimeoutClearsError ==
  /\ toast # Null
  /\ toast' = Null
  /\ error' = <<>>
  /\ ev' = Null
  /\ UNCHANGED <<input, format, timeH, riskT, exchange, loading, valErr,
                 data, expanded, calls, edits, probe>>

ToastTimeout ==
  /\ toast # Null
  /\ toast' = Null
  /\ ev' = Null
  /\ UNCHANGED <<input, format, timeH, riskT, exchange, loading, error, valErr,
                 data, expanded, calls, edits, probe>>

(***************************************************************************)
(* Lines 855-865: a click on the header of a record of the detailed view.  *)
(***************************************************************************)
results == IF data = Null THEN <<>> ELSE data["results"]

ToggleExpanded ==
  /\ ~loading
  /\ Len(results) > 0
  /\ format # "Compact"
  /\ \E k \in 1..Len(results) :
       expanded' = IF expanded = Str(results[k]["symbol"]) THEN Null
                   ELSE Str(results[k]["symbol"])
  /\ ev' = Null
  /\ UNCHANGED <<input, format, timeH, riskT, exchange, loading, error, valErr,
                 toast, data, calls, edits, probe>>

(***************************************************************************)
(* Lines 587-616, 633-640 and 855-889: what is rendered of a record, as    *)
(* the set of its fields that are shown (of symbol, signal, current_price, *)
(* confidence and invalidReason).                                          *)
(***************************************************************************)
isInvalid(r) == Has(r, "isInvalid") /\ r["isInvalid"]

\* A row of the table of Compact.
CompactRow(r) ==
  IF isInvalid(r) THEN {"symbol", "invalidReason"}
  ELSE {"symbol", "current_price", "signal", "confidence"}

\* The header of a record of the accordion: symbol, badge, price and, for a
\* record that is not invalid, confidence.
AccordionHeader(r) ==
  {"symbol", "signal", "current_price"}
    \cup (IF ~isInvalid(r) THEN {"confidence"} ELSE {})

\* The body of an expanded record.
Detailed(r) ==
  IF isInvalid(r) THEN {"invalidReason"}
  ELSE {"current_price"}

\* The results card: nothing while loading or without results; otherwise the
\* parts rendered of the k-th record.
rendered ==
  IF loading \/ Len(results) = 0 THEN {}
  ELSE IF format = "Compact"
  THEN {[part |-> "row", k |-> k, r |-> results[k],
          shown |-> CompactRow(results[k])] : k \in 1..Len(results)}
  ELSE {[part |-> "header", k |-> k, r |-> results[k],
          shown |-> AccordionHeader(results[k])] : k \in 1..Len(results)}
       \cup {[part |-> "body", k |-> k, r |-> results[k],
               shown |-> Detailed(results[k])] :
               k \in {j \in 1..Len(results) : expanded = Str(results[j]["symbol"])}}

Next ==
  \/ SetInput
  \/ SetFormat
  \/ SetTimeH
  \/ SetRiskT
  \/ ClickGenerate
  \/ ClickRetry
  \/ FetchSettles
  \/ ToastTimeout
  \/ ToggleExpanded

Spec == Init /\ [][Next]_vars

(***************************************************************************)
(* FairSpec: every fetch eventually resolves or rejects.  A pending call   *)
(* keeps its place in calls or moves towards the front, so fairness is     *)
(* asked for each place.  The timer of lines 524-529 fires unless the      *)
(* toast changes first: the effect depends on [toast], so a toast with     *)
(* another message clears the timer and starts a new one.                  *)
(***************************************************************************)
FetchSettlesAt(id) ==
  /\ id \in DOMAIN calls
  /\ \E resp \in Responses : Settle(id, resp)
  /\ UNCHANGED <<input, format, timeH, riskT, exchange, valErr, edits, probe>>

\* The messages callN8N can throw.
ToastMessages ==
  {attempt(resp, <<>>).msg : resp \in {r \in Responses : attempt(r, <<>>).threw}}

ToastTimeoutOf(m) == toast = Str(m) /\ ToastTimeout

FairSpec ==
  /\ Spec
  /\ \A id \in 1..MaxInFlight : WF_vars(FetchSettlesAt(id))
  /\ \A m \in ToastMessages : WF_vars(ToastTimeoutOf(m))

(***************************************************************************)
(* PureSpec: the functions of callN8N applied to inputs drawn from bounded *)
(* sets.  probe holds the operation, its input and, once applied, its      *)
(* output; the component state stays as constructed.                       *)
(***************************************************************************)
Alphabet == {"a", "B", ".", ",", " "}

RECURSIVE StringsUpTo(_)
StringsUpTo(n) ==
  IF n = 0 THEN {<<>>}
  ELSE LET shorter == StringsUpTo(n - 1)
       IN shorter \cup {Append(s, c) : s \in shorter, c \in Alphabet}

Exchanges == {NS, BO}

OptPrices == {<<>>, <<0>>, <<100>>}
OptErrors == {<<>>, <<<<>>>>, <<<<"not found">>>>}
OptDetails == {<<>>, <<<<>>>>, <<<<"symbol delisted">>>>}

\* Records with every combination of price, error and details.
RecordsOf(symbols) ==
  {serviceRecord(sy, p, e, d) :
     sy \in symbols, p \in OptPrices, e \in OptErrors, d \in OptDetails}

RECURSIVE ListsUpTo(_, _)
ListsUpTo(S, n) ==
  IF n = 0 THEN {<<>>}
  ELSE LET shorter == ListsUpTo(S, n - 1)
       IN shorter \cup {Append(l, r) : l \in shorter, r \in S}

RawInputs ==
  { <<"A", "A", "A", ",", "B", "B", "B">>,
    <<"a", ",", " ", "b", ".", "B", "O", " ">>,
    <<"a", ",">> }

OptErrorTexts == {<<>>, <<<<>>>>, <<<<"bad ticker">>>>}
ShortLists == {<<>>, <<GoodA>>, <<ErrorB, GoodA>>}

\* An object with an optional error field and an optional results field.
wrapper(err, rs) ==
  [f \in (IF err # <<>> THEN {"error"} ELSE {})
         \cup (IF rs # <<>> THEN {"results"} ELSE {}) |->
     IF f = "error" THEN err[1] ELSE rs[1]]

ProbeBodies ==
  {JNull, JNum, JArr(<<>>), JObj(GoodA), JArr(<<GoodA>>), JArr(<<ErrorB>>)}
    \cup {JObj(wrapper(e, <<l>>)) : e \in OptErrorTexts, l \in ShortLists}
    \cup {JArr(<<wrapper(e, <<l>>)>>) : e \in OptErrorTexts, l \in ShortLists}
    \cup {JArr(<<wrapper(e, <<>>)>>) : e \in OptErrorTexts}
    \cup {JArr(<<wrapper(<<<<"bad ticker">>>>, <<>>), [results |-> <<GoodA>>]>>)}

ProbeInputs ==
  {[op |-> "tickers", in |-> [tickers |-> s, exchange |-> x]] :
     s \in StringsUpTo(MaxLen), x \in Exchanges}
  \cup {[op |-> "record", in |-> r] : r \in RecordsOf({SymA, SymErr})}
  \cup {[op |-> "results", in |-> l] : l \in ListsUpTo(RecordsOf({SymB}), MaxRecs)}
  \cup {[op |-> "parsed", in |-> [tickers |-> s, exchange |-> x, parsed |-> b]] :
          s \in RawInputs, x \in Exchanges, b \in ProbeBodies}

Pending(p) == [op |-> p.op, in |-> p.in, done |-> FALSE, out |-> Null]

PureInit ==
  /\ UiInit
  /\ calls = NoCalls
  /\ edits = 0
  /\ ev = Null
  /\ probe \in {Pending(p) : p \in ProbeInputs}

Apply(out) ==
  /\ ~probe.done
  /\ probe' = [probe EXCEPT !.done = TRUE, !.out = out]
  /\ UNCHANGED <<input, format, timeH, riskT, exchange, loading, error, valErr,
                 toast, data, expanded, calls, edits, ev>>

\* Lines 100-107 on the probe's input.
ApplyTickers ==
  /\ probe.op = "tickers"
  /\ Apply(normalizeTickers(probe.in.tickers, probe.in.exchange))

\* The map callbacks of the two revisions on one record.
ApplyRecord ==
  /\ probe.op = "record"
  /\ Apply([main |-> validateResult(probe.in), p1 |-> validateResultP1(probe.in)])

\* Lines 178-202 on {results: L} and on [{results: L}].
ApplyResults ==
  /\ probe.op = "results"
  /\ Apply([object |-> processParsed(<<>>, JObj([results |-> probe.in])),
            array |-> processParsed(<<>>, JArr(<<[results |-> probe.in]>>))])

\* Lines 100-107 and 158-202 on a parsed body.
ApplyParsed ==
  LET tickers == normalizeTickers(probe.in.tickers, probe.in.exchange)
  IN /\ probe.op = "parsed"
     /\ Apply([tickers |-> tickers,
               outcome |-> processParsed(tickers, probe.in.parsed)])

PureNext ==
  \/ ApplyTickers
  \/ ApplyRecord
  \/ ApplyResults
  \/ ApplyParsed

PureSpec == PureInit /\ [][PureNext]_vars

(***************************************************************************)
(* Claims.                                                                 *)
(***************************************************************************)
Probed(op) == probe.op = op /\ probe.done

hasDot(s) == \E k \in 1..Len(s) : s[k] = "."

dots(s) == Cardinality({k \in 1..Len(s) : s[k] = "."})

\* C1: for every comma-separated segment of the input, trimmed and
\* upper-cased, a segment without "." is sent as segment, ".", exchange, with
\* exactly one suffix (one "."), and a segment with a "." is sent as it is.
C1_SuffixOnlyWithoutDot ==
  Probed("tickers") =>
    LET segs == split(probe.in.tickers)
        sent == split(probe.out)
    IN /\ Len(sent) = Len(segs)
       /\ \A k \in 1..Len(segs) :
            LET seg == toUpperCase(trim(segs[k]))
            IN IF hasDot(seg)
               THEN sent[k] = seg
               ELSE /\ sent[k] = seg \o <<".">> \o probe.in.exchange
                    /\ dots(sent[k]) = 1

\* C1 witness: an input with a lower-case segment that gets the suffix and a
\* segment that already has a "." has been normalized.
C1_Witness ==
  /\ Probed("tickers")
  /\ probe.in.tickers = <<"a", ",", ".">>
  /\ probe.in.exchange = BO
  /\ probe.out = <<"A", ".", "B", "O", ",", ".">>

Ev(type) == "type" \in DOMAIN ev /\ ev.type = type

parsedBody(resp) == resp.text.v

\* A body that is one flat record: an object with a symbol and no results.
isFlatRecord(resp) ==
  /\ resp.kind = "response" /\ resp.ok /\ resp.text.t = "json"
  /\ parsedBody(resp).k = "obj"
  /\ Has(parsedBody(resp).o, "symbol")
  /\ ~Has(parsedBody(resp).o, "results")

\* C2: when the primary attempt failed and the fallback attempt succeeded,
\* callN8N returns a Response (an object with results), and the submission
\* ends with error empty and that Response held in data.
C2_FallbackResponseHeld ==
  (Ev("returned") /\ ev.i = 1) =>
    /\ hasResults(ev.value)
    /\ error = <<>>
    /\ data = ev.value.o

\* C3: when both attempts fail, callN8N throws the failure detail of the
\* fallback attempt, which is what run shows; callN8N never throws otherwise.
C3_FallbackDetailThrown ==
  Ev("threw") =>
    /\ ev.i = 1
    /\ ev.msg = attempt(ev.resp, <<>>).msg
    /\ error = ev.msg

\* C3 witness: both attempts have failed, with different details.
C3_Witness ==
  /\ Ev("threw")
  /\ ev.i = 1
  /\ ev.lastError.message = <<"Failed to fetch">>
  /\ ev.msg = <<"HTTP ", "500", ": ", "Failed to fetch data">>
  /\ error = ev.msg

\* C8: a body that is one flat record ends with a Response held whose results
\* is that one record.
C8_FlatRecordHeld ==
  (Ev("returned") /\ isFlatRecord(ev.resp)) =>
    /\ data # Null
    /\ Len(data["results"]) = 1
    /\ data["results"][1]["symbol"] = parsedBody(ev.resp).o["symbol"]

\* C9: a call makes at most two attempts, the primary then the fallback; the
\* fallback fetch is issued only once the primary attempt has failed, and
\* never after a primary attempt that succeeded.
C9_PrimaryThenFallback ==
  \A id \in 1..Len(calls) :
    LET log == calls[id].log
    IN /\ Len(log) \in {1, 3}
       /\ log[1].op = "fetch" /\ log[1].url = primaryUrl
       /\ calls[id].i = (Len(log) - 1) \div 2
       /\ Len(log) = 3 =>
            /\ log[2].op = "failed" /\ log[2].url = primaryUrl
            /\ log[3].op = "fetch" /\ log[3].url = fallbackUrl

\* C9 witness: a fallback fetch is pending after the primary attempt failed.
C9_Witness ==
  \E id \in 1..Len(calls) :
    /\ Len(calls[id].log) = 3
    /\ calls[id].log[2].op = "failed"
    /\ calls[id].log[3].url = fallbackUrl

\* C10: the body sent to the fallback is the body sent to the primary in the
\* same call, whatever the form holds by then.
C10_SameBodyOnFallback ==
  \A id \in 1..Len(calls) :
    LET log == calls[id].log
    IN Len(log) = 3 => log[3].body = log[1].body

\* C10 witness: a fallback fetch is pending with the body of the primary
\* fetch, while the form would now give another body.
C10_Witness ==
  \E id \in 1..Len(calls) :
    LET log == calls[id].log
    IN /\ Len(log) = 3
       /\ log[3].body = log[1].body
       /\ log[3].body # JSONstringify(fetchBodyFromForm(calls[id]))

\* The synthesized record of the error array, but for its symbol and reason.
isSynthesized(r) ==
  /\ DOMAIN r = {"symbol", "current_price", "signal", "confidence", "entry_price",
                 "target_price", "stop_loss", "isInvalid", "invalidReason"}
  /\ r["current_price"] = 0
  /\ r["signal"] = "SELL/AVOID"
  /\ r["confidence"] = "0%"
  /\ r["isInvalid"] = TRUE

firstElement(parsed) == parsed.e[1]

\* C4 as stated, taken for an error text that is not empty: an array whose
\* first element has an error field gives one invalid record per requested
\* ticker, in order, with price 0, SELL/AVOID, "0%", a reason containing the
\* error text, and the requested symbol ("AAA" and "BBB" for "AAA,BBB").
C4_Original ==
  (/\ Probed("parsed")
   /\ probe.in.parsed.k = "arr"
   /\ Len(probe.in.parsed.e) > 0
   /\ Has(firstElement(probe.in.parsed), "error")
   /\ firstElement(probe.in.parsed)["error"] # <<>>) =>
    LET requested == split(probe.in.tickers)
        out == probe.out.outcome
    IN /\ ~out.threw
       /\ hasResults(out.value)
       /\ Len(out.value.o["results"]) = Len(requested)
       /\ \A k \in 1..Len(requested) :
            LET r == out.value.o["results"][k]
            IN /\ isSynthesized(r)
               /\ r["symbol"] = toUpperCase(trim(requested[k]))
               /\ includes(r["invalidReason"], firstElement(probe.in.parsed)["error"])

\* C4 as amended: an array whose first element has a non-empty error gives
\* exactly one invalid record per element of the normalized ticker list, in
\* order, with price 0, SELL/AVOID, "0%", the reason "Invalid ticker: " and
\* the error text, and the normalized ticker (with its suffix) as symbol.
C4_ErrorArray ==
  (/\ Probed("parsed")
   /\ probe.in.parsed.k = "arr"
   /\ Len(probe.in.parsed.e) > 0
   /\ Has(firstElement(probe.in.parsed), "error")
   /\ firstElement(probe.in.parsed)["error"] # <<>>) =>
    LET requested == split(probe.in.tickers)
        out == probe.out.outcome
    IN /\ ~out.threw
       /\ DOMAIN out.value.o = {"results"}
       /\ Len(out.value.o["results"]) = Len(requested)
       /\ \A k \in 1..Len(requested) :
            LET r == out.value.o["results"][k]
                sym == toUpperCase(trim(requested[k]))
            IN /\ isSynthesized(r)
               /\ r["symbol"] = (IF hasDot(sym) THEN sym
                                 ELSE sym \o <<".">> \o probe.in.exchange)
               /\ r["invalidReason"] =
                    <<"Invalid ticker: ">> \o firstElement(probe.in.parsed)["error"]

\* C4 witness: [{"error": "bad ticker"}] for "AAA,BBB" on NS has given two
\* records, for AAA.NS and BBB.NS.
C4_Witness ==
  /\ Probed("parsed")
  /\ probe.in.tickers = <<"A", "A", "A", ",", "B", "B", "B">>
  /\ probe.in.exchange = NS
  /\ probe.in.parsed = JArr(<<[error |-> <<"bad ticker">>]>>)
  /\ Len(probe.out.outcome.value.o["results"]) = 2
  /\ probe.out.outcome.value.o["results"][1]["symbol"] = <<"A", "A", "A", ".", "N", "S">>
  /\ probe.out.outcome.value.o["results"][2]["symbol"] = <<"B", "B", "B", ".", "N", "S">>

flagged(r, reason) ==
  /\ Has(r, "isInvalid") /\ r["isInvalid"] = TRUE
  /\ r["invalidReason"] = reason

containsError(symbol) == includes(toLowerCase(symbol), <<"e", "r", "r", "o", "r">>)

\* C5 as stated: in both revisions a record with no error field and a
\* missing or zero price is marked invalid with the no-price reason, and a
\* record with no error field and a non-zero price is returned unmodified.
C5_Original ==
  (Probed("record") /\ ~Has(probe.in, "error")) =>
    IF noPrice(probe.in)
    THEN /\ flagged(probe.out.main, NoPriceReason)
         /\ flagged(probe.out.p1, NoPriceReason)
    ELSE /\ probe.out.main = probe.in
         /\ probe.out.p1 = probe.in

\* C5 as amended: as stated for src/SignalGenerator.tsx; in unnamed/part_001
\* a record with no error field and a non-zero price is returned unmodified
\* unless its symbol contains "error" in any case, and then it is marked
\* invalid with the reason "Symbol lookup failed".
C5_PriceValidation ==
  (Probed("record") /\ ~Has(probe.in, "error")) =>
    IF noPrice(probe.in)
    THEN /\ flagged(probe.out.main, NoPriceReason)
         /\ flagged(probe.out.p1, NoPriceReason)
         /\ \A f \in DOMAIN probe.in : probe.out.main[f] = probe.in[f]
    ELSE /\ probe.out.main = probe.in
         /\ ~Has(probe.out.main, "isInvalid")
         /\ IF containsError(probe.in["symbol"])
            THEN flagged(probe.out.p1, LookupFailedReason)
            ELSE probe.out.p1 = probe.in

\* C5 witness: a record with a price of zero and no error has been marked,
\* in both revisions.
C5_Witness ==
  /\ Probed("record")
  /\ probe.in = serviceRecord(SymA, <<0>>, <<>>, <<>>)
  /\ flagged(probe.out.main, NoPriceReason)
  /\ flagged(probe.out.p1, NoPriceReason)

\* C6 as stated: a record with an error field is marked invalid, with the
\* details as reason when details is present and the error text otherwise.
C6_Original ==
  (Probed("record") /\ Has(probe.in, "error")) =>
    flagged(probe.out.main,
            IF Has(probe.in, "details") THEN probe.in["details"]
            ELSE probe.in["error"])

\* C6 as amended: a record with a non-empty error is marked invalid, with
\* the details as reason when details is present and non-empty and the error
\* text otherwise.
C6_ErrorValidation ==
  (Probed("record") /\ Has(probe.in, "error") /\ probe.in["error"] # <<>>) =>
    flagged(probe.out.main,
            IF Has(probe.in, "details") /\ probe.in["details"] # <<>>
            THEN probe.in["details"]
            ELSE probe.in["error"])

\* C6 witness: error "not found" with details "symbol delisted" has given
\* the reason "symbol delisted".
C6_Witness ==
  /\ Probed("record")
  /\ Has(probe.in, "error") /\ probe.in["error"] = <<"not found">>
  /\ Has(probe.in, "details") /\ probe.in["details"] = <<"symbol delisted">>
  /\ flagged(probe.out.main, <<"symbol delisted">>)

\* C7: for every list of records L, the body {results: L} and the body
\* [{results: L}] give the same Response.
C7_RoundTrip ==
  Probed("results") => probe.out.object = probe.out.array

\* C7 witness: both forms of a list with a record that gets marked and one
\* that does not have given a Response of two records.
C7_Witness ==
  /\ Probed("results")
  /\ Len(probe.in) = 2
  /\ probe.in[1] = serviceRecord(SymB, <<0>>, <<>>, <<>>)
  /\ probe.in[2] = serviceRecord(SymB, <<100>>, <<>>, <<>>)
  /\ ~probe.out.array.threw
  /\ probe.out.array.value.o["results"] =
       <<markInvalid(probe.in[1], NoPriceReason), probe.in[2]>>
  /\ probe.out.object = probe.out.array

\* A click that runs run with an input that is blank once trimmed.
blankSubmission == trim(input) = <<>> /\ (ClickGenerate \/ ClickRetry)

\* C11: a submission with an input that is blank once trimmed issues no
\* request (no call of callN8N is started and no pending call fetches), sets
\* the validation error, and leaves loading false and the held Response as
\* it was.
C11_BlankRejected ==
  [][blankSubmission =>
       /\ calls' = calls
       /\ valErr' = ValErrMsg
       /\ loading' = FALSE
       /\ data' = data]_vars

\* C12: at most one call of callN8N is pending at any time.
C12_SingleInFlight == Len(calls) <= 1

\* The last pending call settles, after another call was pending with it
\* (another call has set loading to false since this one was started).
lastOfOverlapSettles == Len(calls) = 1 /\ calls' = NoCalls /\ ~loading

\* C13: when the last of several overlapping submissions completes, the held
\* Response and error are those of the submission started last: its own if it
\* is the one started last (the Response it returned and no error, or its
\* error and no Response), and as they were if a later one has completed.
C13_NewerSupersedes ==
  [][lastOfOverlapSettles =>
       IF calls[1].latest
       THEN IF ev'.type = "returned"
            THEN /\ hasResults(ev'.value) => data' = ev'.value.o
                 /\ error' = <<>>
            ELSE /\ data' = Null
                 /\ error' = ev'.msg
       ELSE UNCHANGED <<data, error>>]_vars

\* C14: nothing rendered of a record that has isInvalid set, in the table
\* row, the accordion header or the accordion body, shows its signal badge,
\* its price or its confidence.
C14_InvalidNotRecommended ==
  \A v \in rendered :
    isInvalid(v.r) =>
      v.shown \cap {"signal", "current_price", "confidence"} = {}

\* C15: when a submission ends with a failure on both endpoints, error and
\* toast are the message of the failure caught last and no Response is held.
C15_FailureSurfaced ==
  Ev("threw") =>
    /\ error = attempt(ev.resp, <<>>).msg
    /\ toast = Str(attempt(ev.resp, <<>>).msg)
    /\ data = Null

hasServiceResults(parsed) ==
  \/ parsed.k = "obj" /\ Has(parsed.o, "results")
  \/ parsed.k = "arr" /\ Len(parsed.e) > 0 /\ Has(parsed.e[1], "results")

serviceResults(parsed) ==
  IF parsed.k = "obj" THEN parsed.o["results"] ELSE parsed.e[1]["results"]

domainInvalidRecord(r) == truthyText(r, "error") \/ noPrice(r)

\* A well-formed response that reports invalid symbols: the error array, or
\* results with a record that has an error or no price.
domainInvalid(resp) ==
  /\ resp.kind = "response" /\ resp.ok /\ resp.text.t = "json"
  /\ \/ isErrorArray(parsedBody(resp))
     \/ /\ hasServiceResults(parsedBody(resp))
        /\ \E k \in 1..Len(serviceResults(parsedBody(resp))) :
             domainInvalidRecord(serviceResults(parsedBody(resp))[k])

\* r with nothing changed but isInvalid and invalidReason added.
onlyMarked(out, r) ==
  /\ isInvalid(out) /\ Has(out, "invalidReason")
  /\ DOMAIN out = DOMAIN r \cup {"isInvalid", "invalidReason"}
  /\ \A f \in DOMAIN r : out[f] = r[f]

C17_Original ==
  \A k \in 1..Len(results) :
    (Has(results[k], "error") \/ noPrice(results[k])) => isInvalid(results[k])

\* C17 as amended: every record of the held Response that carries a
\* non-empty error field, or has a missing or zero current_price, has
\* isInvalid set.
C17_HeldInvalidMarked ==
  \A k \in 1..Len(results) :
    domainInvalidRecord(results[k]) => isInvalid(results[k])

\* C17 witness: a Response is held with a record that has an error, marked,
\* and a record of the same Response that is not marked.
C17_Witness ==
  /\ Len(results) = 2
  /\ truthyText(results[1], "error") /\ isInvalid(results[1])
  /\ ~domainInvalidRecord(results[2]) /\ ~isInvalid(results[2])
  /\ calls = NoCalls /\ ~loading

\* r.details || r.error
detailsOrError(r) == IF truthyText(r, "details") THEN r["details"] ELSE r["error"]

\* C18 as stated: a record with an error field is marked invalid whatever its
\* price, and with a missing or zero price its reason is the details or error
\* text, not the no-price reason.
C18_Original ==
  (Probed("record") /\ Has(probe.in, "error")) =>
    /\ isInvalid(probe.out.main)
    /\ noPrice(probe.in) =>
         /\ probe.out.main["invalidReason"] = detailsOrError(probe.in)
         /\ probe.out.main["invalidReason"] # NoPriceReason

\* C18 as amended: a record with a non-empty error is marked invalid whatever
\* its price, its price is left as it is, and its reason is the details or
\* error text also when the price is missing or zero, never the no-price
\* reason.
C18_ErrorPrecedence ==
  (Probed("record") /\ truthyText(probe.in, "error")) =>
    /\ isInvalid(probe.out.main)
    /\ Has(probe.in, "current_price") <=> Has(probe.out.main, "current_price")
    /\ Has(probe.in, "current_price") =>
         probe.out.main["current_price"] = probe.in["current_price"]
    /\ probe.out.main["invalidReason"] = detailsOrError(probe.in)
    /\ probe.out.main["invalidReason"] # NoPriceReason

\* C18 witness: a record with error "not found", no details and a price of
\* zero has been marked with the reason "not found".
C18_Witness ==
  /\ Probed("record")
  /\ probe.in = serviceRecord(SymA, <<0>>, <<<<"not found">>>>, <<>>)
  /\ isInvalid(probe.out.main)
  /\ probe.out.main["invalidReason"] = <<"not found">>

\* C19 as stated: an array whose first element has an error field and a
\* results list gives only synthesized records, one per segment of the
\* normalized ticker list, and none of the service's records.
C19_Original ==
  (/\ Probed("parsed")
   /\ probe.in.parsed.k = "arr"
   /\ Len(probe.in.parsed.e) > 0
   /\ Has(firstElement(probe.in.parsed), "error")
   /\ Has(firstElement(probe.in.parsed), "results")) =>
    LET segments == split(probe.out.tickers)
        out == probe.out.outcome
    IN /\ ~out.threw
       /\ Len(out.value.o["results"]) = Len(segments)
       /\ \A k \in 1..Len(segments) : isSynthesized(out.value.o["results"][k])

\* C19 as amended: an array whose first element has a non-empty error and a
\* results list gives a Response of synthesized records only, exactly one per
\* segment of the normalized ticker list with that segment as symbol, and
\* none of the service's records, marked or not.
C19_ShortCircuit ==
  (/\ Probed("parsed")
   /\ probe.in.parsed.k = "arr"
   /\ Len(probe.in.parsed.e) > 0
   /\ truthyText(firstElement(probe.in.parsed), "error")
   /\ Has(firstElement(probe.in.parsed), "results")) =>
    LET segments == split(probe.out.tickers)
        sent == firstElement(probe.in.parsed)["results"]
        out == probe.out.outcome
    IN /\ ~out.threw
       /\ DOMAIN out.value.o = {"results"}
       /\ Len(out.value.o["results"]) = Len(segments)
       /\ \A k \in 1..Len(segments) :
            LET r == out.value.o["results"][k]
            IN /\ isSynthesized(r)
               /\ r["symbol"] = trim(segments[k])
               /\ \A j \in 1..Len(sent) :
                    r # sent[j] /\ r # validateResult(sent[j])

\* C19 witness: [{"error": "bad ticker", "results": [B.BO, AA.NS]}] for
\* "AAA,BBB" on NS has given two synthesized records and no other.
C19_Witness ==
  /\ Probed("parsed")
  /\ probe.in.tickers = <<"A", "A", "A", ",", "B", "B", "B">>
  /\ probe.in.exchange = NS
  /\ probe.in.parsed = JArr(<<[error |-> <<"bad ticker">>, results |-> <<ErrorB, GoodA>>]>>)
  /\ Len(probe.out.outcome.value.o["results"]) = 2
  /\ \A k \in 1..2 : isSynthesized(probe.out.outcome.value.o["results"][k])

\* C20: whenever a submission is pending, eventually a run has finished with
\* loading false and with a Response held or an error message set.
C20_Terminates ==
  (calls # NoCalls) ~>
    /\ Ev("returned") \/ Ev("threw")
    /\ ~loading
    /\ data # Null \/ error # <<>>

\* The isInvalid flag and the invalidReason of a validated record.
verdict(out) ==
  IF isInvalid(out) THEN <<TRUE, out["invalidReason"]>> ELSE <<FALSE>>

\* C21 as stated: for every record, the validation of src/SignalGenerator.tsx
\* and that of unnamed/part_001 give the same isInvalid flag and the same
\* invalidReason.
C21_Original ==
  Probed("record") => verdict(probe.out.main) = verdict(probe.out.p1)

\* C21 as amended: the two validations give the same flag and reason for
\* every record but one with no (non-empty) error, a non-zero price and a
\* symbol that contains "error" in any case; such a record is left unmarked
\* by src/SignalGenerator.tsx and marked "Symbol lookup failed" by part_001.
C21_SameButErrorSymbols ==
  Probed("record") =>
    IF /\ ~domainInvalidRecord(probe.in)
       /\ containsError(probe.in["symbol"])
    THEN /\ verdict(probe.out.main) = <<FALSE>>
         /\ verdict(probe.out.p1) = <<TRUE, LookupFailedReason>>
    ELSE verdict(probe.out.main) = verdict(probe.out.p1)

\* C21 witness: a record with a zero price and a symbol that contains
\* "error" has been given the no-price reason by both validations.
C21_Witness ==
  /\ Probed("record")
  /\ probe.in = serviceRecord(SymErr, <<0>>, <<>>, <<>>)
  /\ verdict(probe.out.main) = <<TRUE, NoPriceReason>>
  /\ verdict(probe.out.p1) = <<TRUE, NoPriceReason>>

\* A response with a success status and a body that parses as JSON.
parsesAsJson(resp) ==
  resp.kind = "response" /\ resp.ok /\ resp.text.t = "json"

\* C22: a call that gets a response with a success status and a body that
\* parses as JSON returns on that attempt: it fetches no fallback and does
\* not fail.
C22_JsonIsSuccess ==
  [][\A id \in DOMAIN calls : \A resp \in Responses :
       (parsesAsJson(resp) /\ Settle(id, resp)) =>
         /\ calls' = without(calls, id)
         /\ ev'.type = "returned"]_vars

\* C23: loading is true exactly when a call of callN8N is pending.
C23_LoadingIffPending == loading <=> calls # NoCalls

\* C24: when the submission that just finished succeeded (callN8N returned),
\* error and toast are empty.
C24_NoStaleErrorAfterSuccess ==
  Ev("returned") => error = <<>> /\ toast = Null

\* C25: whenever error is not empty, no Response is held.
C25_ErrorExcludesResponse == error # <<>> => data = Null

\* The records whose accordion body is rendered.
expandedBodies == {v.k : v \in {w \in rendered : w.part = "body"}}

\* C26: at most one accordion body is rendered at a time; a click on the
\* header of a record whose body is rendered leaves no body rendered, and a
\* click on the header of another record leaves the body of that record
\* rendered and no other.
C26_SingleExpansion ==
  /\ [](Cardinality(expandedBodies) <= 1)
  /\ [][ToggleExpanded =>
          \E k \in 1..Len(results) :
            IF k \in expandedBodies
            THEN expandedBodies' = {}
            ELSE expandedBodies' = {k}]_vars

\* C27: expanded is null or the symbol of a record of the held Response;
\* after a return with a non-empty results list it is the symbol of the first
\* record; and it is null after the start of a submission.
C27_ExpandedInResponse ==
  /\ [](expanded # Null =>
          \E k \in 1..Len(results) : expanded = Str(results[k]["symbol"]))
  /\ []((Ev("returned") /\ hasResults(ev.value) /\ Len(ev.value.o["results"]) > 0) =>
          expanded = Str(ev.value.o["results"][1]["symbol"]))
  /\ [][((ClickGenerate \/ ClickRetry) /\ trim(input) # <<>>) =>
          expanded' = Null]_vars

\* C28: a toast that is shown is eventually dismissed unless a further
\* submission fails first; the step that dismisses it changes nothing but
\* the toast; and a non-empty error message is emptied only by the start of
\* a submission.
C28_ToastDismissed ==
  /\ (toast # Null /\ ~Ev("threw")) ~> (toast = Null \/ Ev("threw"))
  /\ [][(toast # Null /\ toast' = Null) =>
          UNCHANGED <<input, format, timeH, riskT, exchange, loading, error,
                      valErr, data, expanded, calls>>]_vars
  /\ [][(error # <<>> /\ error' = <<>>) => (ClickGenerate \/ ClickRetry)]_vars

\* C28 witness: the toast of a failed submission has been dismissed and the
\* error message is still set.
C28_Witness ==
  /\ toast = Null
  /\ error = <<"HTTP ", "500", ": ", "Failed to fetch data">>
  /\ calls = NoCalls /\ ~loading
  /\ data = Null

\* A change of a field of the form.
formEdited == <<input, format, timeH, riskT>>' # <<input, format, timeH, riskT>>

\* C29: a step that changes the ticker input, Format, Time Horizon or Risk
\* Tolerance starts no call and makes no pending call fetch, and leaves the
\* held Response, loading, error and expanded as they were; a change of
\* Format changes nothing else of the component; and every request body
\* fetched has "Detailed" as Output Format, whatever Format was selected.
C29_FormEditsOnly ==
  /\ [][formEdited => UNCHANGED <<calls, data, loading, error, expanded>>]_vars
  /\ [][format' # format =>
          UNCHANGED <<input, timeH, riskT, exchange, loading, error, valErr,
                      toast, data, expanded, calls>>]_vars
  /\ [](\A id \in 1..Len(calls) : \A k \in 1..Len(calls[id].log) :
          calls[id].log[k].op = "fetch" =>
            calls[id].log[k].body[4] = <<"Output Format", "Detailed">>)

\* C29 witness: a fetch is pending that was started with the Compact format
\* selected, with the Output Format "Detailed".
C29_Witness ==
  /\ format = "Compact"
  /\ Len(calls) = 1
  /\ Len(calls[1].log) = 1
  /\ calls[1].log[1].body[4] = <<"Output Format", "Detailed">>

\* C30: for an input that is not blank once trimmed, every segment that gets
\* the exchange suffix has a non-empty symbol before the suffix: no element
\* of the list sent is "." followed by the exchange.
C30_NoBareSuffix ==
  (Probed("tickers") /\ trim(probe.in.tickers) # <<>>) =>
    LET segs == split(probe.in.tickers)
        sent == split(probe.out)
    IN \A k \in 1..Len(sent) :
         ~hasDot(segs[k]) =>
           /\ Len(sent[k]) > Len(probe.in.exchange) + 1
           /\ sent[k] # <<".">> \o probe.in.exchange

====
